---- MODULE Spec2Model ----
(***************************************************************************)
(* Model of src/server.js: the reading logger (push endpoint and serial    *)
(* link), its cumulative online/offline accounting, the two JSONL logs and *)
(* the retention pruner.                                                   *)
(*                                                                         *)
(* Node runs the program on one event loop: the code between two awaits is *)
(* one atomic step, and a file operation takes effect at some point        *)
(* between the call that issues it and the continuation of its await.      *)
(* Times are milliseconds, as in the code.                                 *)
(***************************************************************************)
EXTENDS Integers, Sequences, FiniteSets, TLC

(***************************************************************************)
(* JavaScript values, tagged with their typeof.  A timestamp string made   *)
(* by toISOString() is Iso(ms): new Date(Iso(ms)).getTime() = ms.          *)
(***************************************************************************)
Null == [type |-> "null"]
Undefined == [type |-> "undefined"]
Bool(b) == [type |-> "boolean", val |-> b]
Num(n) == [type |-> "number", val |-> n]
Str(s) == [type |-> "string", val |-> s]
Obj == [type |-> "object"]
Iso(ms) == [type |-> "iso", ms |-> ms]

\* The value getTime() returns for an invalid date; every valid time is >= 0.
NaN == -1

isNaN(x) == x = NaN

\* new Date(v).getTime()
getTime(v) == IF v.type = "iso" THEN v.ms ELSE NaN

\* JavaScript truthiness, as used by `if (x)` and `a && b`.
Truthy(v) ==
  CASE v.type = "boolean" -> v.val
    [] v.type = "number" -> v.val # 0
    [] v.type = "string" -> v.val # <<>>
    [] v.type = "iso" -> TRUE
    [] v.type = "object" -> TRUE
    [] OTHER -> FALSE

(***************************************************************************)
(* Strings are sequences of one-character strings.                         *)
(***************************************************************************)
UpperChars == <<"A","B","C","D","E","F","G","H","I","J","K","L","M",
                "N","O","P","Q","R","S","T","U","V","W","X","Y","Z">>
LowerChars == <<"a","b","c","d","e","f","g","h","i","j","k","l","m",
                "n","o","p","q","r","s","t","u","v","w","x","y","z">>

toLowerChar(ch) ==
  IF \E i \in 1..Len(UpperChars) : UpperChars[i] = ch
    THEN LowerChars[CHOOSE i \in 1..Len(UpperChars) : UpperChars[i] = ch]
    ELSE ch

toLowerCase(s) == [i \in 1..Len(s) |-> toLowerChar(s[i])]

WhiteSpace == {" ", "\t", "\n", "\r"}

RECURSIVE trimStart(_)
trimStart(s) ==
  IF s # <<>> /\ Head(s) \in WhiteSpace THEN trimStart(Tail(s)) ELSE s

RECURSIVE trimEnd(_)
trimEnd(s) ==
  IF s # <<>> /\ s[Len(s)] \in WhiteSpace
    THEN trimEnd(SubSeq(s, 1, Len(s) - 1))
    ELSE s

trim(s) == trimEnd(trimStart(s))

\* computeOnline without the trimming of a string.
computeOnlineUntrimmed(reading) ==
  LET p == reading.power IN
  IF p.type = "boolean" THEN p.val
  ELSE IF p.type = "number" THEN p.val # 0
  ELSE IF p.type = "string"
    THEN toLowerCase(p.val) = <<"o", "n">> \/ p.val = <<"1">>
  ELSE FALSE

\* computeOnline: the status of a reading, from its power field.
computeOnline(reading) ==
  LET p == reading.power IN
  IF p.type = "boolean" THEN p.val
  ELSE IF p.type = "number" THEN p.val # 0
  ELSE IF p.type = "string"
    THEN toLowerCase(trim(p.val)) = <<"o", "n">> \/ trim(p.val) = <<"1">>
  ELSE FALSE

(***************************************************************************)
(* CumulativeStats                                                         *)
(***************************************************************************)
resetStats ==
  [total_online_ms |-> 0, total_offline_ms |-> 0,
   last_status |-> Null, last_timestamp |-> Null]

\* max without the comparison.
maxSecond(a, b) == b

\* Math.max
max(a, b) == IF a >= b THEN a ELSE b

\* Lines 60-72: hours, minutes and seconds of a duration, each printed with
\* at least two digits.
formatMs(ms) ==
  LET totalSeconds == ms \div 1000 IN
  <<totalSeconds \div 3600, (totalSeconds % 3600) \div 60, totalSeconds % 60>>

\* The comparator of line 76; sort() takes a NaN result as +0.
compareTs(a, b) ==
  LET ta == getTime(a.timestamp)
      tb == getTime(b.timestamp)
  IN IF isNaN(ta) \/ isNaN(tb) THEN 0 ELSE ta - tb

\* One insertion of a stable sort: x goes after the last element that does
\* not compare greater than it.
RECURSIVE insertSorted(_, _)
insertSorted(sorted, x) ==
  IF sorted # <<>> /\ compareTs(sorted[Len(sorted)], x) > 0
    THEN Append(insertSorted(SubSeq(sorted, 1, Len(sorted) - 1), x),
                sorted[Len(sorted)])
    ELSE Append(sorted, x)

\* sortReadings without the sort: the readings in the order given.
sortReadingsUnsorted(readings) == readings

\* readings.slice().sort(comparator): Array.prototype.sort is stable.
RECURSIVE sortReadings(_)
sortReadings(readings) ==
  IF readings = <<>> THEN <<>>
  ELSE insertSorted(sortReadings(SubSeq(readings, 1, Len(readings) - 1)),
                    readings[Len(readings)])

\* replayStep with the time attributed to the status of the new reading
\* instead of the last one.
replayStepToNewStatus(nextStats, reading) ==
  LET tsMs == getTime(reading.timestamp)
      online == computeOnline(reading)
      lastMs == getTime(nextStats.last_timestamp)
      delta == max(0, tsMs - lastMs)
      counted ==
        IF nextStats.last_status # Null /\ Truthy(nextStats.last_timestamp)
          THEN IF online
                 THEN [nextStats EXCEPT !.total_online_ms = @ + delta]
                 ELSE [nextStats EXCEPT !.total_offline_ms = @ + delta]
          ELSE nextStats
  IN IF isNaN(tsMs) THEN nextStats
     ELSE [counted EXCEPT !.last_status = Bool(online),
                          !.last_timestamp = reading.timestamp]

\* The loop body of recomputeStats, lines 83-98.
replayStep(nextStats, reading) ==
  LET tsMs == getTime(reading.timestamp)
      online == computeOnline(reading)
      lastMs == getTime(nextStats.last_timestamp)
      delta == max(0, tsMs - lastMs)
      counted ==
        IF nextStats.last_status # Null /\ Truthy(nextStats.last_timestamp)
          THEN IF Truthy(nextStats.last_status)
                 THEN [nextStats EXCEPT !.total_online_ms = @ + delta]
                 ELSE [nextStats EXCEPT !.total_offline_ms = @ + delta]
          ELSE nextStats
  IN IF isNaN(tsMs) THEN nextStats
     ELSE [counted EXCEPT !.last_status = Bool(online),
                          !.last_timestamp = reading.timestamp]

RECURSIVE replay(_, _)
replay(nextStats, sorted) ==
  IF sorted = <<>> THEN nextStats
  ELSE replay(replayStep(nextStats, Head(sorted)), Tail(sorted))

recomputeStats(readings) == replay(resetStats, sortReadings(readings))

(***************************************************************************)
(* Log lines.  A line is the JSON text of a record, or text JSON.parse     *)
(* rejects (a torn or foreign line).                                       *)
(***************************************************************************)
Malformed == [json |-> FALSE]

\* JSON.stringify(obj) of a record of the log.
stringify(obj) == [json |-> TRUE, obj |-> obj]

\* JSON.parse(line) throws on a malformed line.
parses(line) == line.json

parse(line) == line.obj

(***************************************************************************)
(* JSON.parse of a frame of the serial link, for the JSON the model's      *)
(* streams can hold: objects, strings without escapes, integers, true,     *)
(* false and null.  A result is [ok, next, val]: whether a value was read, *)
(* the position after it, and the value.  Of an object only its power      *)
(* field is kept, the one field the program reads.                         *)
(***************************************************************************)
Digits == <<"0", "1", "2", "3", "4", "5", "6", "7", "8", "9">>

isDigit(ch) == \E d \in 1..Len(Digits) : Digits[d] = ch

digitValue(ch) == (CHOOSE d \in 1..Len(Digits) : Digits[d] = ch) - 1

jsonFail == [ok |-> FALSE, next |-> 0, val |-> Undefined]

charAt(s, i) == IF i >= 1 /\ i <= Len(s) THEN s[i] ELSE ""

RECURSIVE skipWs(_, _)
skipWs(s, i) == IF charAt(s, i) \in WhiteSpace THEN skipWs(s, i + 1) ELSE i

\* The position of the quote closing the string opened before i, 0 if none
\* or if the string holds a control character or an escape.
RECURSIVE closingQuote(_, _)
closingQuote(s, i) ==
  IF i > Len(s) \/ s[i] \in {"\t", "\n", "\r", "\\"} THEN 0
  ELSE IF s[i] = "\"" THEN i
  ELSE closingQuote(s, i + 1)

jsonString(s, i) ==
  IF charAt(s, i) # "\"" THEN jsonFail
  ELSE LET j == closingQuote(s, i + 1) IN
       IF j = 0 THEN jsonFail
       ELSE [ok |-> TRUE, next |-> j + 1, val |-> Str(SubSeq(s, i + 1, j - 1))]

RECURSIVE digitsEnd(_, _)
digitsEnd(s, i) == IF isDigit(charAt(s, i)) THEN digitsEnd(s, i + 1) ELSE i

RECURSIVE digitsValue(_, _, _)
digitsValue(s, i, j) ==
  IF j < i THEN 0 ELSE 10 * digitsValue(s, i, j - 1) + digitValue(s[j])

\* An integer: an optional minus, then 0 or digits without a leading 0.
jsonNumber(s, i) ==
  LET neg == charAt(s, i) = "-"
      first == IF neg THEN i + 1 ELSE i
      last == digitsEnd(s, first) - 1
  IN IF last < first \/ (s[first] = "0" /\ last > first) THEN jsonFail
     ELSE [ok |-> TRUE, next |-> last + 1,
           val |-> Num((IF neg THEN -1 ELSE 1) * digitsValue(s, first, last))]

jsonLiteral(s, i, word, val) ==
  IF i + Len(word) - 1 <= Len(s) /\ SubSeq(s, i, i + Len(word) - 1) = word
    THEN [ok |-> TRUE, next |-> i + Len(word), val |-> val]
    ELSE jsonFail

RECURSIVE jsonValue(_, _)
RECURSIVE jsonMembers(_, _, _)

\* The members of an object from position i on; power is the value of the
\* last "power" member read so far.
jsonMembers(s, i, power) ==
  LET key == jsonString(s, skipWs(s, i)) IN
  IF ~key.ok THEN jsonFail
  ELSE LET colon == skipWs(s, key.next) IN
       IF charAt(s, colon) # ":" THEN jsonFail
       ELSE LET v == jsonValue(s, colon + 1) IN
            IF ~v.ok THEN jsonFail
            ELSE LET p == IF key.val.val = <<"p", "o", "w", "e", "r">>
                            THEN v.val ELSE power
                     after == skipWs(s, v.next)
                 IN IF charAt(s, after) = ","
                      THEN jsonMembers(s, after + 1, p)
                    ELSE IF charAt(s, after) = "}"
                      THEN [ok |-> TRUE, next |-> after + 1,
                            val |-> [type |-> "object", power |-> p]]
                    ELSE jsonFail

jsonObject(s, i) ==
  LET first == skipWs(s, i + 1) IN
  IF charAt(s, first) = "}"
    THEN [ok |-> TRUE, next |-> first + 1,
          val |-> [type |-> "object", power |-> Undefined]]
    ELSE jsonMembers(s, i + 1, Undefined)

jsonValue(s, i) ==
  LET j == skipWs(s, i)
      ch == charAt(s, j)
  IN IF ch = "{" THEN
       LET o == jsonObject(s, j) IN
       \* a nested object is a value of type object
       IF o.ok THEN [o EXCEPT !.val = [type |-> "object", power |-> o.val.power]]
       ELSE jsonFail
     ELSE IF ch = "\"" THEN jsonString(s, j)
     ELSE IF ch = "-" \/ isDigit(ch) THEN jsonNumber(s, j)
     ELSE IF ch = "t" THEN jsonLiteral(s, j, <<"t", "r", "u", "e">>, Bool(TRUE))
     ELSE IF ch = "f"
       THEN jsonLiteral(s, j, <<"f", "a", "l", "s", "e">>, Bool(FALSE))
     ELSE IF ch = "n" THEN jsonLiteral(s, j, <<"n", "u", "l", "l">>, Null)
     ELSE jsonFail

\* JSON.parse(text): one value, then only white space.
JSONparse(text) ==
  LET v == jsonValue(text, 1) IN
  IF v.ok /\ skipWs(text, v.next) = Len(text) + 1 THEN v ELSE jsonFail

\* The power field of a parsed frame, as computeOnline reads it.
powerOf(val) ==
  IF val.type = "object"
    THEN IF val.power.type = "object" THEN Obj ELSE val.power
    ELSE Undefined

(***************************************************************************)
(* Configuration and bounds                                                *)
(***************************************************************************)
\* RETENTION_DAYS as configured (any positive number; the code defaults to 7).
RETENTION_DAYS == 1

DayMs == 24 * 60 * 60 * 1000

RETENTION_MS == RETENTION_DAYS * DayMs

\* Concurrent POST /readings requests, and concurrent flushBuffer calls.
MaxPush == 2
MaxFlush == 2
\* Days the clock advances after the process starts.
MaxTicks == 1
\* POST /readings requests the clients send.
MaxRequests == 1
\* Lines in each log when the process starts.
MaxInitLog == 1

PushIds == {<<"push", i>> : i \in 1..MaxPush}
FlushIds == {<<"serial", i>> : i \in 1..MaxFlush}
Callers == PushIds \cup FlushIds

StartTime == 2 * DayMs
MaxClock == StartTime + MaxTicks * DayMs

\* The power values the model's requests carry.
PushPowers == {Num(0), Num(1)}

VARIABLES
  now,        \* Date.now()
  log,        \* the lines of readings.jsonl
  statsLog,   \* the lines of uptime_stats.jsonl
  stats,      \* the CumulativeStats
  call,       \* per caller: the appendReading call it awaits
  rp,         \* pruneOldReadings: position, cutoff, kept
  sp,         \* pruneOldStatsLog: position, cutoff, kept
  lp,         \* loadStatsFromReadings: position, readings
  init,       \* the position of initialize()
  timerSet,   \* setInterval was called
  timerDue,   \* the interval has elapsed and its callback has yet to run
  clients,    \* the POST /readings requests yet to arrive
  port,       \* the serial port of startSerial
  wire,       \* the chunks the serial link has yet to deliver
  buffer,     \* flushBuffer's buffer
  arg,        \* the argument of a function applied on its own
  ret         \* and its result

vars == <<now, log, statsLog, stats, call, rp, sp, lp, init, timerSet,
          timerDue, port, clients, wire, buffer, arg, ret>>

fileVars == <<log, statsLog>>
pruneVars == <<rp, sp, lp, init, timerSet, timerDue, port>>
timerVars == <<timerSet, timerDue, port>>
serialVars == <<clients, wire, buffer>>
pureVars == <<arg, ret>>

idleCall == [pc |-> "idle", stamped |-> Null, seg |-> Null, result |-> "none"]
idlePrune == [pc |-> "idle", cutoff |-> 0, kept |-> <<>>]
idleLoad == [pc |-> "idle", readings |-> <<>>]

(***************************************************************************)
(* flushBuffer, lines 286-320                                              *)
(***************************************************************************)
\* buffer.indexOf("{"), 0 when there is none.
RECURSIVE indexOfBrace(_, _)
indexOfBrace(buf, i) ==
  IF i > Len(buf) THEN 0
  ELSE IF buf[i] = "{" THEN i
  ELSE indexOfBrace(buf, i + 1)

\* Lines 295-305: the position of the brace that brings the depth back to
\* zero, 0 when there is none.
RECURSIVE frameEnd(_, _, _)
frameEnd(buf, i, depth) ==
  IF i > Len(buf) THEN 0
  ELSE LET ch == buf[i]
           opened == IF ch = "{" THEN depth + 1 ELSE depth
           d == IF ch = "}" THEN opened - 1 ELSE opened
       IN IF d = 0 /\ ch = "}" THEN i ELSE frameEnd(buf, i + 1, d)

\* flushLoop with the buffer cleared when a frame is not yet closed.
RECURSIVE flushLoopDropsPartial(_)
flushLoopDropsPartial(buf) ==
  LET start == indexOfBrace(buf, 1) IN
  IF start = 0 THEN [buffer |-> <<>>, calls |-> FALSE, reading |-> Null]
  ELSE LET sliced == SubSeq(buf, start, Len(buf))
           end == frameEnd(sliced, 1, 0)
       IN IF end = 0 THEN [buffer |-> <<>>, calls |-> FALSE, reading |-> Null]
          ELSE LET candidate == SubSeq(sliced, 1, end)
                   rest == SubSeq(sliced, end + 1, Len(sliced))
                   parsed == JSONparse(candidate)
               IN IF parsed.ok
                    THEN [buffer |-> rest, calls |-> TRUE,
                          reading |-> [power |-> powerOf(parsed.val)]]
                    ELSE flushLoopDropsPartial(rest)

\* The loop of lines 287-319 from the buffer buf up to its return or to
\* its next call of appendReading: the buffer it leaves, and the reading it
\* passes to appendReading if it calls it.  A candidate JSON.parse rejects
\* is dropped (line 317) and the loop goes on.
RECURSIVE flushLoop(_)
flushLoop(buf) ==
  LET start == indexOfBrace(buf, 1) IN
  IF start = 0 THEN [buffer |-> <<>>, calls |-> FALSE, reading |-> Null]
  ELSE LET sliced == SubSeq(buf, start, Len(buf))
           end == frameEnd(sliced, 1, 0)
       IN IF end = 0 THEN [buffer |-> sliced, calls |-> FALSE, reading |-> Null]
          ELSE LET candidate == SubSeq(sliced, 1, end)
                   rest == SubSeq(sliced, end + 1, Len(sliced))
                   parsed == JSONparse(candidate)
               IN IF parsed.ok
                    THEN [buffer |-> rest, calls |-> TRUE,
                          reading |-> [power |-> powerOf(parsed.val)]]
                    ELSE flushLoop(rest)

(***************************************************************************)
(* appendReading, lines 212-246, and its callers                           *)
(***************************************************************************)
\* Lines 213-217: the reading is stamped and the append to the log issued.
invoked(reading) ==
  [pc |-> "appendLog",
   stamped |-> [power |-> reading.power, timestamp |-> Iso(now)],
   seg |-> Null, result |-> "none"]

\* flushBuffer runs caller c's loop from the buffer buf.
RunFlush(c, buf) ==
  LET r == flushLoop(buf) IN
  /\ buffer' = r.buffer
  /\ call' = [call EXCEPT ![c] = IF r.calls THEN invoked(r.reading) ELSE idleCall]

\* Lines 253 and 256: the answer to a request, which carries the stamped
\* reading when appendReading returned it.
answered(c, outcome) ==
  [idleCall EXCEPT !.result = outcome,
                   !.stamped = IF outcome = "saved" THEN call[c].stamped
                               ELSE Null]

\* Settle with flushBuffer returning when appendReading throws.
SettleStops(c, outcome) ==
  IF c \in FlushIds /\ outcome = "saved"
    THEN RunFlush(c, buffer)
    ELSE /\ call' = [call EXCEPT ![c] = answered(c, outcome)]
         /\ UNCHANGED buffer

\* The promise of appendReading settles for caller c.  The POST handler
\* answers 201 with the stamped reading, or 500 (lines 253-256); flushBuffer
\* only logs the outcome (lines 315, 317) and goes round its loop.
Settle(c, outcome) ==
  IF c \in FlushIds
    THEN RunFlush(c, buffer)
    ELSE /\ call' = [call EXCEPT ![c] = answered(c, outcome)]
         /\ UNCHANGED buffer

\* Data with the chunk assigned to the buffer in place of being appended.
DataReplacesBuffer(c) ==
  /\ port = "open"
  /\ wire # <<>>
  /\ call[c].pc = "idle"
  /\ RunFlush(c, Head(wire))
  /\ wire' = Tail(wire)
  /\ UNCHANGED <<now, log, statsLog, stats, pruneVars, clients, pureVars>>

\* port.on("data"), lines 322-325: the chunk joins the buffer and a call of
\* flushBuffer starts.
Data(c) ==
  /\ port = "open"
  /\ wire # <<>>
  /\ call[c].pc = "idle"
  /\ RunFlush(c, buffer \o Head(wire))
  /\ wire' = Tail(wire)
  /\ UNCHANGED <<now, log, statsLog, stats, pruneVars, clients, pureVars>>

\* POST /readings, lines 249-252.
PushRequest(c, p) ==
  /\ clients > 0
  /\ call[c].pc = "idle"
  /\ call' = [call EXCEPT ![c] = invoked([power |-> p])]
  /\ clients' = clients - 1
  /\ UNCHANGED <<now, log, statsLog, stats, pruneVars, wire, buffer, pureVars>>

\* fs.appendFile(LOG_FILE) takes effect.
AppendLogOk(c) ==
  /\ call[c].pc = "appendLog"
  /\ log' = Append(log, stringify(call[c].stamped))
  /\ call' = [call EXCEPT ![c].pc = "logged"]
  /\ UNCHANGED <<now, statsLog, stats, pruneVars, serialVars, pureVars>>

\* fs.appendFile(LOG_FILE) rejects: appendReading throws at line 217.
AppendLogFail(c) ==
  /\ call[c].pc = "appendLog"
  /\ Settle(c, "failed")
  /\ UNCHANGED <<now, log, statsLog, stats, pruneVars, clients, wire, pureVars>>

\* addDelta with the two totals exchanged.
addDeltaSwapped(s, nowMs) ==
  LET lastMs == getTime(s.last_timestamp)
      delta == max(0, nowMs - lastMs)
  IN IF s.last_status # Null /\ Truthy(s.last_timestamp)
       THEN IF Truthy(s.last_status)
              THEN [s EXCEPT !.total_offline_ms = @ + delta]
              ELSE [s EXCEPT !.total_online_ms = @ + delta]
       ELSE s

\* Lines 222-229: the time since the last reading goes to the total of the
\* last status.
addDelta(s, nowMs) ==
  LET lastMs == getTime(s.last_timestamp)
      delta == max(0, nowMs - lastMs)
  IN IF s.last_status # Null /\ Truthy(s.last_timestamp)
       THEN IF Truthy(s.last_status)
              THEN [s EXCEPT !.total_online_ms = @ + delta]
              ELSE [s EXCEPT !.total_offline_ms = @ + delta]
       ELSE s

\* emitsSegment without the test of delta > 0.
emitsSegmentAnyDelta(s, stamped) ==
  /\ s.last_status # Null /\ Truthy(s.last_timestamp)
  /\ Bool(computeOnline(stamped)) # s.last_status

\* The condition of lines 222 and 232 under which a segment is appended.
emitsSegment(s, stamped) ==
  /\ s.last_status # Null /\ Truthy(s.last_timestamp)
  /\ Bool(computeOnline(stamped)) # s.last_status
  /\ max(0, getTime(stamped.timestamp) - getTime(s.last_timestamp)) > 0

\* Lines 233-238 and 40-47: the entry appendStatsSegment writes.
segmentEntry(s, stamped) ==
  LET delta == max(0, getTime(stamped.timestamp) - getTime(s.last_timestamp))
  IN [snapshot_at |-> Iso(now),
      status |-> IF Truthy(s.last_status) THEN "online" ELSE "offline",
      start_at |-> s.last_timestamp,
      end_at |-> stamped.timestamp,
      duration_ms |-> delta,
      duration_hms |-> formatMs(delta)]

\* setLast without the assignment of last_timestamp.
setLastStatusOnly(s, stamped) ==
  [s EXCEPT !.last_status = Bool(computeOnline(stamped))]

\* Lines 242-243.
setLast(s, stamped) ==
  [s EXCEPT !.last_status = Bool(computeOnline(stamped)),
            !.last_timestamp = stamped.timestamp]

\* Lines 219-240 after the append to the log, up to the await of
\* appendStatsSegment; without a segment the call runs to its return.
AppendContinue(c) ==
  /\ call[c].pc = "logged"
  /\ LET stamped == call[c].stamped
         counted == addDelta(stats, getTime(stamped.timestamp))
     IN IF emitsSegment(stats, stamped)
          THEN /\ stats' = counted
               /\ call' = [call EXCEPT ![c].pc = "appendSeg",
                                       ![c].seg = segmentEntry(stats, stamped)]
               /\ UNCHANGED buffer
          ELSE /\ stats' = setLast(counted, stamped)
               /\ Settle(c, "saved")
  /\ UNCHANGED <<now, log, statsLog, pruneVars, clients, wire, pureVars>>

\* fs.appendFile(STATS_LOG) takes effect.
AppendSegOk(c) ==
  /\ call[c].pc = "appendSeg"
  /\ statsLog' = Append(statsLog, stringify(call[c].seg))
  /\ call' = [call EXCEPT ![c].pc = "segged"]
  /\ UNCHANGED <<now, log, stats, pruneVars, serialVars, pureVars>>

\* fs.appendFile(STATS_LOG) rejects: appendReading throws at line 233.
AppendSegFail(c) ==
  /\ call[c].pc = "appendSeg"
  /\ Settle(c, "failed")
  /\ UNCHANGED <<now, log, statsLog, stats, pruneVars, clients, wire, pureVars>>

\* Lines 242-245 after the segment was appended.
AppendFinish(c) ==
  /\ call[c].pc = "segged"
  /\ stats' = setLast(stats, call[c].stamped)
  /\ Settle(c, "saved")
  /\ UNCHANGED <<now, log, statsLog, pruneVars, clients, wire, pureVars>>

(***************************************************************************)
(* The retention pruner, lines 104-170, and loadStatsFromReadings          *)
(***************************************************************************)
\* keptReadings with the record stamped exactly at the cutoff dropped.
RECURSIVE keptReadingsStrict(_, _)
keptReadingsStrict(lines, cutoff) ==
  IF lines = <<>> THEN <<>>
  ELSE LET line == Head(lines)
           rest == keptReadingsStrict(Tail(lines), cutoff)
       IN IF parses(line)
            THEN LET obj == parse(line)
                     tsMs == getTime(obj.timestamp)
                 IN IF ~isNaN(tsMs) /\ tsMs > cutoff
                      THEN <<obj>> \o rest
                      ELSE rest
            ELSE rest

\* Lines 148-159: the records of the readings log that are kept.
RECURSIVE keptReadings(_, _)
keptReadings(lines, cutoff) ==
  IF lines = <<>> THEN <<>>
  ELSE LET line == Head(lines)
           rest == keptReadings(Tail(lines), cutoff)
       IN IF parses(line)
            THEN LET obj == parse(line)
                     tsMs == getTime(obj.timestamp)
                 IN IF ~isNaN(tsMs) /\ tsMs >= cutoff
                      THEN <<obj>> \o rest
                      ELSE rest
            ELSE rest

\* Lines 114-126: the records of the segment log that are kept.
RECURSIVE keptSegments(_, _)
keptSegments(lines, cutoff) ==
  IF lines = <<>> THEN <<>>
  ELSE LET line == Head(lines)
           rest == keptSegments(Tail(lines), cutoff)
       IN IF parses(line)
            THEN LET obj == parse(line)
                     ts == obj.snapshot_at
                     tsMs == IF Truthy(ts) THEN getTime(ts) ELSE NaN
                 IN IF ~isNaN(tsMs) /\ tsMs >= cutoff
                      THEN <<obj>> \o rest
                      ELSE rest
            ELSE rest

\* Lines 133 and 167: one JSON line per kept record (none: the empty file).
payloadOf(kept) == [i \in 1..Len(kept) |-> stringify(kept[i])]

\* Lines 181-188: every line that parses.
RECURSIVE parsedLines(_)
parsedLines(lines) ==
  IF lines = <<>> THEN <<>>
  ELSE IF parses(Head(lines))
    THEN <<parse(Head(lines))>> \o parsedLines(Tail(lines))
    ELSE parsedLines(Tail(lines))

\* Lines 138-139 and 105: a prune starts; its cutoff is taken and the read
\* of the log issued.
startPrune == [pc |-> "reading", cutoff |-> now - RETENTION_MS, kept |-> <<>>]

\* The serial port of startSerial, lines 275-283: the constructor may throw.
PortOutcomes == {"open", "none"}

\* app.listen's callback, line 338: initialize() runs to its first await.
Listen ==
  /\ init = "listening"
  /\ init' = "pruneOldReadings"
  /\ rp' = startPrune
  /\ UNCHANGED <<now, fileVars, stats, call, sp, lp, timerVars,
                 serialVars, pureVars>>

\* fs.readFile(LOG_FILE) of pruneOldReadings completes (a missing file reads
\* as no lines); lines 143-168 filter it and issue the rewrite.
PruneReadingsRead ==
  /\ rp.pc = "reading"
  /\ rp' = [rp EXCEPT !.pc = "writing", !.kept = keptReadings(log, rp.cutoff)]
  /\ UNCHANGED <<now, fileVars, stats, call, sp, lp, init, timerVars,
                 serialVars, pureVars>>

\* fs.writeFile(LOG_FILE) takes effect.
PruneReadingsWriteOk ==
  /\ rp.pc = "writing"
  /\ log' = payloadOf(rp.kept)
  /\ rp' = [rp EXCEPT !.pc = "written"]
  /\ UNCHANGED <<now, statsLog, stats, call, sp, lp, init, timerVars,
                 serialVars, pureVars>>

\* Lines 163 and 169: the stats a completed prune of the readings installs.
prunedStats(kept) == IF Len(kept) = 0 THEN resetStats ELSE recomputeStats(kept)

\* PruneReadingsDone without the assignment of stats.
PruneReadingsDoneKeepsStats ==
  /\ rp.pc = "written"
  /\ rp' = idlePrune
  /\ IF init = "pruneOldReadings"
       THEN /\ init' = "pruneOldStatsLog"
            /\ sp' = startPrune
       ELSE UNCHANGED <<init, sp>>
  /\ UNCHANGED <<now, fileVars, stats, call, lp, timerVars, serialVars,
                 pureVars>>

\* The continuation of the rewrite: lines 163 and 169.  At startup
\* initialize() goes on to pruneOldStatsLog (line 201).
PruneReadingsDone ==
  /\ rp.pc = "written"
  /\ stats' = prunedStats(rp.kept)
  /\ rp' = idlePrune
  /\ IF init = "pruneOldReadings"
       THEN /\ init' = "pruneOldStatsLog"
            /\ sp' = startPrune
       ELSE UNCHANGED <<init, sp>>
  /\ UNCHANGED <<now, fileVars, call, lp, timerVars, serialVars, pureVars>>

\* initialize() rejects: line 339 logs, line 340 starts the serial port.
\* setInterval (line 204) is never reached.
InitRejected(p) ==
  /\ init' = "rejected"
  /\ port' = p
  /\ UNCHANGED <<timerSet, timerDue>>

\* fs.writeFile(LOG_FILE) rejects: pruneOldReadings throws.  The timer's
\* catch logs it (line 205); at startup initialize() rejects.
PruneReadingsWriteFail ==
  /\ rp.pc = "writing"
  /\ rp' = idlePrune
  /\ IF init = "pruneOldReadings"
       THEN \E p \in PortOutcomes : InitRejected(p)
       ELSE UNCHANGED <<init, timerVars>>
  /\ UNCHANGED <<now, fileVars, stats, call, sp, lp, serialVars, pureVars>>

\* fs.readFile(STATS_LOG) of pruneOldStatsLog completes; lines 109-134.
PruneStatsRead ==
  /\ sp.pc = "reading"
  /\ sp' = [sp EXCEPT !.pc = "writing", !.kept = keptSegments(statsLog, sp.cutoff)]
  /\ UNCHANGED <<now, fileVars, stats, call, rp, lp, init, timerVars,
                 serialVars, pureVars>>

\* fs.writeFile(STATS_LOG) takes effect.
PruneStatsWriteOk ==
  /\ sp.pc = "writing"
  /\ statsLog' = payloadOf(sp.kept)
  /\ sp' = [sp EXCEPT !.pc = "written"]
  /\ UNCHANGED <<now, log, stats, call, rp, lp, init, timerVars,
                 serialVars, pureVars>>

\* pruneOldStatsLog returns.  At startup initialize() goes on to
\* loadStatsFromReadings (line 202), which issues its read of the log.
PruneStatsDone ==
  /\ sp.pc = "written"
  /\ sp' = idlePrune
  /\ IF init = "pruneOldStatsLog"
       THEN /\ init' = "loadStatsFromReadings"
            /\ lp' = [pc |-> "reading", readings |-> <<>>]
       ELSE UNCHANGED <<init, lp>>
  /\ UNCHANGED <<now, fileVars, stats, call, rp, timerVars,
                 serialVars, pureVars>>

\* fs.writeFile(STATS_LOG) rejects: pruneOldStatsLog throws (logged at line
\* 206; at startup initialize() rejects).
PruneStatsWriteFail ==
  /\ sp.pc = "writing"
  /\ sp' = idlePrune
  /\ IF init = "pruneOldStatsLog"
       THEN \E p \in PortOutcomes : InitRejected(p)
       ELSE UNCHANGED <<init, timerVars>>
  /\ UNCHANGED <<now, fileVars, stats, call, rp, lp, serialVars, pureVars>>

\* fs.readFile(LOG_FILE) of loadStatsFromReadings completes; lines 176-188.
LoadRead ==
  /\ lp.pc = "reading"
  /\ lp' = [pc |-> "read", readings |-> parsedLines(log)]
  /\ UNCHANGED <<now, fileVars, stats, call, rp, sp, init, timerVars,
                 serialVars, pureVars>>

\* Lines 190-195: the stats loadStatsFromReadings installs.
loadedStats(readings) ==
  IF Len(readings) = 0 THEN resetStats ELSE recomputeStats(readings)

\* Lines 190-195, then initialize() sets the daily timer (line 204) and
\* resolves, and line 340 starts the serial port.
LoadDone ==
  /\ lp.pc = "read"
  /\ stats' = loadedStats(lp.readings)
  /\ lp' = idleLoad
  /\ init' = "resolved"
  /\ timerSet' = TRUE
  /\ port' \in PortOutcomes
  /\ UNCHANGED <<now, fileVars, call, rp, sp, timerDue, serialVars, pureVars>>

\* The callback of the daily timer runs, lines 204-209: both prunes start.
\* A prune takes far less than the 24 hours between two runs, so the
\* previous ones have settled.
TimerFire ==
  /\ timerDue
  /\ rp.pc = "idle" /\ sp.pc = "idle"
  /\ timerDue' = FALSE
  /\ rp' = startPrune
  /\ sp' = startPrune
  /\ UNCHANGED <<now, fileVars, stats, call, lp, init, timerSet, port,
                 serialVars, pureVars>>

\* A day passes; the interval of a timer that is set elapses (line 209).
Tick ==
  /\ now < MaxClock
  /\ now' = now + DayMs
  /\ timerDue' = timerSet
  /\ UNCHANGED <<fileVars, stats, call, rp, sp, lp, init, timerSet, port,
                 serialVars, pureVars>>

(***************************************************************************)
(* The running service                                                     *)
(***************************************************************************)
\* Sequences of at most n elements of S.
SeqsUpTo(S, n) == UNION {[1..k -> S] : k \in 0..n}

\* The text {"power":1}, {"power":0} and some noise between frames.
FrameOn == <<"{", "\"", "p", "o", "w", "e", "r", "\"", ":", "1", "}">>
FrameOff == <<"{", "\"", "p", "o", "w", "e", "r", "\"", ":", "0", "}">>
Noise == <<"g", "a", "r", "b", "a", "g", "e">>

\* What the logs may hold when the process starts: readings stamped two days
\* and one day before, by the runs before this one, and a torn line.
InitLines ==
  {stringify([power |-> p, timestamp |-> Iso(t)]) :
     p \in PushPowers, t \in {StartTime - 2 * DayMs, StartTime - DayMs}}
  \cup {Malformed}

InitSegments ==
  {stringify([snapshot_at |-> Iso(t), status |-> "online",
              start_at |-> Iso(0), end_at |-> Iso(t), duration_ms |-> t,
              duration_hms |-> formatMs(t)]) :
     t \in {StartTime - 2 * DayMs, StartTime - DayMs}}
  \cup {Malformed}

\* The state when app.listen has bound the port and nothing has run yet.
InitProcess ==
  /\ now = StartTime
  /\ stats = resetStats
  /\ rp = idlePrune
  /\ sp = idlePrune
  /\ lp = idleLoad
  /\ init = "listening"
  /\ timerSet = FALSE
  /\ timerDue = FALSE
  /\ port = "closed"
  /\ buffer = <<>>

\* One request and one flushBuffer call at a time, beside the pruner.
Init ==
  /\ InitProcess
  /\ call = [c \in {<<"push", 1>>, <<"serial", 1>>} |-> idleCall]
  /\ log \in SeqsUpTo(InitLines, MaxInitLog)
  /\ statsLog \in SeqsUpTo(InitSegments, MaxInitLog)
  /\ clients = MaxRequests
  /\ wire = <<Noise \o FrameOn>>
  /\ arg = <<>>
  /\ ret = Null

Startup ==
  \/ Listen
  \/ PruneReadingsRead
  \/ PruneReadingsWriteOk
  \/ PruneReadingsWriteFail
  \/ PruneReadingsDone
  \/ PruneStatsRead
  \/ PruneStatsWriteOk
  \/ PruneStatsWriteFail
  \/ PruneStatsDone
  \/ LoadRead
  \/ LoadDone
  \/ TimerFire

Next ==
  \/ Tick
  \/ Startup
  \/ \E c \in DOMAIN call \cap PushIds, p \in PushPowers : PushRequest(c, p)
  \/ \E c \in DOMAIN call \cap FlushIds : Data(c)
  \/ \E c \in DOMAIN call : AppendLogOk(c)
  \/ \E c \in DOMAIN call : AppendLogFail(c)
  \/ \E c \in DOMAIN call : AppendContinue(c)
  \/ \E c \in DOMAIN call : AppendSegOk(c)
  \/ \E c \in DOMAIN call : AppendSegFail(c)
  \/ \E c \in DOMAIN call : AppendFinish(c)

Spec == Init /\ [][Next]_vars

(***************************************************************************)
(* Readings applied one after another: each request is sent when the one   *)
(* before it has been answered, at the time its reading is to be stamped,  *)
(* and no append fails.  arg is the sequence of readings to apply.         *)
(***************************************************************************)
\* The longest sequence of readings applied.
MaxFeed == 3

ScenarioT0 == StartTime

FeedTimes == {ScenarioT0, ScenarioT0 + 5000, ScenarioT0 + 15000}

Feeds ==
  {f \in SeqsUpTo([power : PushPowers, at : FeedTimes], MaxFeed) :
     \A i \in 1..(Len(f) - 1) : f[i].at <= f[i + 1].at}

\* The process has started on empty logs; the clock shows the time of the
\* first reading.
Started ==
  /\ stats = resetStats
  /\ log = <<>>
  /\ statsLog = <<>>
  /\ rp = idlePrune
  /\ sp = idlePrune
  /\ lp = idleLoad
  /\ init = "resolved"
  /\ timerSet = TRUE
  /\ timerDue = FALSE
  /\ buffer = <<>>

InitReplay ==
  /\ Started
  /\ arg \in Feeds
  /\ now = IF arg = <<>> THEN ScenarioT0 ELSE arg[1].at
  /\ call = [c \in {<<"push", 1>>} |-> idleCall]
  /\ clients = Len(arg)
  /\ port = "none"
  /\ wire = <<>>
  /\ ret = Null

\* The reading the next request carries.
nextFed == arg[Len(arg) - clients + 1]

\* The clock reaches the time of the next reading.
Advance ==
  /\ clients > 0
  /\ \A c \in DOMAIN call : call[c].pc = "idle"
  /\ now < nextFed.at
  /\ now' = nextFed.at
  /\ UNCHANGED <<fileVars, stats, call, pruneVars, serialVars, pureVars>>

Feed(c) ==
  /\ clients > 0
  /\ now = nextFed.at
  /\ PushRequest(c, nextFed.power)

NextReplay ==
  \/ Advance
  \/ \E c \in DOMAIN call : Feed(c)
  \/ \E c \in DOMAIN call : AppendLogOk(c)
  \/ \E c \in DOMAIN call : AppendContinue(c)
  \/ \E c \in DOMAIN call : AppendSegOk(c)
  \/ \E c \in DOMAIN call : AppendFinish(c)

SpecReplay == InitReplay /\ [][NextReplay]_vars

(***************************************************************************)
(* recomputeStats applied on its own to a sequence of readings, arg.       *)
(***************************************************************************)
\* The longest sequence recomputed.
MaxReadings == 3

\* Readings stamped at three times, and readings without a valid timestamp.
RecomputeInputs ==
  [power : PushPowers,
   timestamp : {Iso(StartTime), Iso(StartTime + DayMs),
                Iso(StartTime + 2 * DayMs), Undefined}]

InitRecompute ==
  /\ Started
  /\ now = StartTime
  /\ arg \in SeqsUpTo(RecomputeInputs, MaxReadings)
  /\ ret = Null
  /\ call = <<>>
  /\ clients = 0
  /\ port = "none"
  /\ wire = <<>>

CallRecompute ==
  /\ ret = Null
  /\ ret' = recomputeStats(arg)
  /\ UNCHANGED <<now, fileVars, stats, call, pruneVars, serialVars, arg>>

NextRecompute == CallRecompute

SpecRecompute == InitRecompute /\ [][NextRecompute]_vars

(***************************************************************************)
(* The pruner on its own: startup and the daily prune of logs drawn from   *)
(* more kinds of line, with no reading arriving.  arg holds the two logs   *)
(* as they were when the process started.                                  *)
(***************************************************************************)
PruneLines ==
  {stringify([power |-> Num(1), timestamp |-> t]) :
     t \in {Iso(StartTime - 2 * DayMs), Iso(StartTime - DayMs),
            Iso(StartTime), Undefined}}
  \cup {Malformed}

PruneSegments ==
  {stringify([snapshot_at |-> t, status |-> "online", start_at |-> Iso(0),
              end_at |-> Iso(DayMs), duration_ms |-> DayMs,
              duration_hms |-> formatMs(DayMs)]) :
     t \in {Iso(StartTime - 2 * DayMs), Iso(StartTime - DayMs),
            Iso(StartTime), Undefined}}
  \cup {Malformed}

InitPrune ==
  /\ InitProcess
  /\ log \in SeqsUpTo(PruneLines, MaxInitLog + 1)
  /\ statsLog \in SeqsUpTo(PruneSegments, MaxInitLog + 1)
  /\ arg = [log |-> log, statsLog |-> statsLog]
  /\ ret = Null
  /\ call = <<>>
  /\ clients = 0
  /\ wire = <<>>

NextPrune == Tick \/ Startup

SpecPrune == InitPrune /\ [][NextPrune]_vars

(***************************************************************************)
(* The serial link on its own: a stream of frames cut into two chunks at   *)
(* any place, and no append fails.  arg is the stream as sent.             *)
(***************************************************************************)
\* The chunks of the two-chunk scenario: garbage{"power":1}{"pow and er":0
ScenarioChunk1 == Noise \o FrameOn \o <<"{", "\"", "p", "o", "w">>
ScenarioChunk2 == <<"e", "r", "\"", ":", "0">>

\* The two ways a text is cut in two chunks after its first n characters.
CutsOf(text) ==
  {<<SubSeq(text, 1, n), SubSeq(text, n + 1, Len(text))>> : n \in 1..(Len(text) - 1)}

FrameStreams ==
  CutsOf(ScenarioChunk1 \o ScenarioChunk2)
    \cup CutsOf(ScenarioChunk1 \o ScenarioChunk2 \o <<"}">>)

InitFrame ==
  /\ Started
  /\ now = StartTime
  /\ wire \in FrameStreams
  /\ arg = wire
  /\ ret = Null
  /\ call = [c \in FlushIds |-> idleCall]
  /\ clients = 0
  /\ port = "open"

NextFrame ==
  \/ Tick
  \/ \E c \in DOMAIN call : Data(c)
  \/ \E c \in DOMAIN call : AppendLogOk(c)
  \/ \E c \in DOMAIN call : AppendContinue(c)
  \/ \E c \in DOMAIN call : AppendSegOk(c)
  \/ \E c \in DOMAIN call : AppendFinish(c)

SpecFrame == InitFrame /\ [][NextFrame]_vars

(***************************************************************************)
(* Ingestion on its own: the serial link delivers two frames, after noise  *)
(* or after a candidate that is not JSON, in one or two chunks; a client   *)
(* sends requests; any append may fail.  arg is the stream as sent.        *)
(***************************************************************************)
\* A balanced candidate that is not JSON, a stray "{" and a stray "}".
Broken == <<"{", "x", "}">>
StrayOpen == <<"{">>
StrayClose == <<"}">>

IngestPrefixes == {<<>>, Noise, Broken, StrayOpen, StrayClose}

IngestStreams ==
  {<<pre \o FrameOff \o FrameOn>> : pre \in IngestPrefixes}
    \cup {<<pre \o FrameOff, FrameOn>> : pre \in IngestPrefixes}
    \cup {<<pre, FrameOff \o FrameOn>> : pre \in IngestPrefixes \ {<<>>}}

InitIngest ==
  /\ Started
  /\ now = StartTime
  /\ wire \in IngestStreams
  /\ arg = wire
  /\ ret = Null
  /\ call = [c \in FlushIds \cup {<<"push", 1>>} |-> idleCall]
  /\ clients = MaxRequests
  /\ port = "open"

NextIngest ==
  \/ Tick
  \/ \E c \in DOMAIN call \cap PushIds, p \in PushPowers : PushRequest(c, p)
  \/ \E c \in DOMAIN call \cap FlushIds : Data(c)
  \/ \E c \in DOMAIN call : AppendLogOk(c)
  \/ \E c \in DOMAIN call : AppendLogFail(c)
  \/ \E c \in DOMAIN call : AppendContinue(c)
  \/ \E c \in DOMAIN call : AppendSegOk(c)
  \/ \E c \in DOMAIN call : AppendSegFail(c)
  \/ \E c \in DOMAIN call : AppendFinish(c)

SpecIngest == InitIngest /\ [][NextIngest]_vars

(***************************************************************************)
(* computeOnline applied on its own to a reading, arg.                     *)
(***************************************************************************)
\* The longest string classified.
MaxStrLen == 3

ClassifyChars == {"o", "n", "O", "N", "1", "f", " ", "\t"}

\* Power fields of every type; Undefined is a reading without the field.
ClassifyPowers ==
  {Bool(TRUE), Bool(FALSE), Num(0), Num(1), Num(2), Null, Undefined, Obj}
    \cup {Str(t) : t \in SeqsUpTo(ClassifyChars, MaxStrLen)}

InitClassify ==
  /\ Started
  /\ now = StartTime
  /\ arg \in [power : ClassifyPowers]
  /\ ret = Null
  /\ call = <<>>
  /\ clients = 0
  /\ port = "none"
  /\ wire = <<>>

CallClassify ==
  /\ ret = Null
  /\ ret' = Bool(computeOnline(arg))
  /\ UNCHANGED <<now, fileVars, stats, call, pruneVars, serialVars, arg>>

NextClassify == CallClassify

SpecClassify == InitClassify /\ [][NextClassify]_vars

(***************************************************************************)
(* Properties                                                              *)
(***************************************************************************)
\* Caller c is between the computation of its delta (lines 222-229) and its
\* assignment of last_status and last_timestamp (lines 242-243).
MidApply(c) == call[c].pc \in {"appendSeg", "segged"}

\* C1: appendReading is atomic with respect to other calls of appendReading:
\* no call computes its delta against a last_timestamp and last_status that
\* another call, which has computed its own delta, has yet to replace, and no
\* two calls emit a segment for the same transition (the same previous status
\* from the same start).
C1_ApplyReadingAtomic ==
  [][/\ \A c \in DOMAIN call :
          (call[c].pc = "logged" /\ call'[c].pc # "logged")
            => \A d \in DOMAIN call \ {c} : ~MidApply(d)
     /\ \A c, d \in DOMAIN call :
          (c # d /\ MidApply(c)' /\ MidApply(d)')
            => call'[c].seg.start_at # call'[d].seg.start_at]_vars

\* A prune or a load of the readings log is between its read of the log and
\* its replacement of the stats.
RecomputeInFlight == rp.pc \in {"writing", "written"} \/ lp.pc = "read"

\* C2: while a prune or recompute of the readings log is in flight, from its
\* read of the log until it replaces the stats, no appendReading reads or
\* changes the stats or appends to the log: every step taken meanwhile that
\* is not the prune's or the load's own leaves the stats and the log as they
\* are.
C2_ApplySerializedWithRecompute ==
  [][(RecomputeInFlight /\ rp' = rp /\ lp' = lp)
       => (stats' = stats /\ log' = log)]_vars

\* No call of appendReading is under way.
AllIdle == \A c \in DOMAIN call : call[c].pc = "idle"

\* C3: replay equivalence.  For a chronologically sorted sequence of readings
\* with valid timestamps, recomputeStats of the sequence gives the totals,
\* last_status and last_timestamp that appendReading gives when applied to
\* each reading in order, one after another, from the unset stats.  (The log
\* holds the readings applied so far, as stamped.)
C3_ReplayEquivalence ==
  AllIdle => recomputeStats(parsedLines(log)) = stats

C3_Witness ==
  /\ AllIdle
  /\ Len(log) = 3
  /\ stats.total_online_ms > 0
  /\ stats.total_offline_ms > 0

\* The orders in which the readings of a sequence can be given.
Orders(seq) ==
  {[i \in 1..Len(seq) |-> seq[f[i]]] :
     f \in {g \in [1..Len(seq) -> 1..Len(seq)] :
              \A i, j \in 1..Len(seq) : g[i] = g[j] => i = j}}

\* Every reading has a valid timestamp.
ValidTimestamps(seq) == \A i \in 1..Len(seq) : ~isNaN(getTime(seq[i].timestamp))

\* Readings that share a timestamp have the same status.
TiesAgree(seq) ==
  \A i, j \in 1..Len(seq) :
    seq[i].timestamp = seq[j].timestamp
      => computeOnline(seq[i]) = computeOnline(seq[j])

\* C4 as claimed: recomputeStats gives the same stats for every order of any
\* set of readings, readings of different status sharing a timestamp included.
C4_SortIndependenceAnySet ==
  ret # Null => \A p \in Orders(arg) : recomputeStats(p) = ret

\* C4: sort-independence.  For readings with valid timestamps among which
\* those that share a timestamp have the same status, recomputeStats gives the
\* same stats for every order of the readings, the chronological one included.
C4_SortIndependence ==
  (ret # Null /\ ValidTimestamps(arg) /\ TiesAgree(arg))
    => \A p \in Orders(arg) : recomputeStats(p) = ret

C4_Witness ==
  /\ ret # Null
  /\ ValidTimestamps(arg) /\ TiesAgree(arg)
  /\ Len(arg) = 3
  /\ getTime(arg[1].timestamp) > getTime(arg[2].timestamp)
  /\ getTime(arg[3].timestamp) = getTime(arg[2].timestamp)
  /\ ret.total_online_ms > 0

\* C5: in every reachable state last_status and last_timestamp are both set
\* or both unset, whatever the interleaving of requests, frames, prunes and
\* the startup load, and whichever appends and rewrites fail.
C5_LastSetTogether ==
  (stats.last_status = Null) <=> (stats.last_timestamp = Null)

\* A request failed after the stats were set and time was attributed.
C5_Witness ==
  /\ \E c \in DOMAIN call : call[c].result = "failed"
  /\ stats.last_status # Null
  /\ stats.last_timestamp # Null
  /\ stats.total_online_ms + stats.total_offline_ms > 0

\* The readings power=0 at T0, power=1 at T0+5000, power=0 at T0+15000.
Scenario ==
  <<[power |-> Num(0), at |-> ScenarioT0],
    [power |-> Num(1), at |-> ScenarioT0 + 5000],
    [power |-> Num(0), at |-> ScenarioT0 + 15000]>>

\* What a segment of the segment log says, without its recording time.
segmentOf(line) ==
  [status |-> line.obj.status, start_at |-> line.obj.start_at,
   end_at |-> line.obj.end_at, duration_ms |-> line.obj.duration_ms]

\* C6: from unset stats, the readings of Scenario applied in order give
\* total_offline_ms = 5000 after the second and total_online_ms = 10000 after
\* the third, and exactly two segments are emitted: offline [T0, T0+5000]
\* and online [T0+5000, T0+15000].
C6_EndToEnd ==
  arg = Scenario =>
    /\ Len(statsLog) <= 2
    /\ (AllIdle /\ Len(log) = 2) => stats.total_offline_ms = 5000
    /\ (AllIdle /\ Len(log) = 3) =>
         /\ stats.total_online_ms = 10000
         /\ [i \in 1..Len(statsLog) |-> segmentOf(statsLog[i])] =
              <<[status |-> "offline", start_at |-> Iso(ScenarioT0),
                 end_at |-> Iso(ScenarioT0 + 5000), duration_ms |-> 5000],
                [status |-> "online", start_at |-> Iso(ScenarioT0 + 5000),
                 end_at |-> Iso(ScenarioT0 + 15000), duration_ms |-> 10000]>>

C6_Witness == arg = Scenario /\ AllIdle /\ Len(log) = 3

\* The lines of a log that are records whose field holds a valid time at or
\* after the cutoff, in their order.
FreshLines(lines, cutoff, field) ==
  SelectSeq(lines,
            LAMBDA l : /\ l.json
                       /\ l.obj[field].type = "iso"
                       /\ l.obj[field].ms >= cutoff)

\* C7: a prune with cutoff C leaves in the log exactly the records it was
\* given whose timestamp (snapshot_at for segments) is >= C, in their order,
\* and pruning the pruned log again with the same cutoff leaves it unchanged.
C7_PruneKeepsExactlyFresh ==
  /\ rp.pc = "written" =>
       /\ log = FreshLines(arg.log, rp.cutoff, "timestamp")
       /\ payloadOf(keptReadings(log, rp.cutoff)) = log
  /\ sp.pc = "written" =>
       /\ statsLog = FreshLines(arg.statsLog, sp.cutoff, "snapshot_at")
       /\ payloadOf(keptSegments(statsLog, sp.cutoff)) = statsLog

\* A prune of the readings log dropped a line and kept one.
C7_Witness ==
  /\ rp.pc = "written"
  /\ Len(arg.log) = 2
  /\ Len(log) = 1

\* C8: when a prune of the readings log completes, the stats are those
\* recomputeStats gives for the kept records, or the unset stats when none
\* is kept; no step of a prune of the segment log changes the stats.
C8_PruneReplacesStats ==
  [][/\ (rp.pc = "written" /\ rp'.pc # "written")
          => stats' = IF rp.kept = <<>> THEN resetStats
                      ELSE recomputeStats(rp.kept)
     /\ (sp.pc # "idle" /\ sp' # sp) => stats' = stats]_vars

\* The startup prune has completed on a log it kept a record of, and no
\* reading has arrived yet.
C8_Witness ==
  /\ init = "pruneOldStatsLog"
  /\ sp.pc = "written"
  /\ AllIdle /\ clients = MaxRequests /\ buffer = <<>> /\ Len(wire) = 1
  /\ log # <<>>
  /\ stats.last_status # Null

\* C9: once startup is over, however it ended, the daily prune is scheduled.
C9_DailyPruneScheduled ==
  init \in {"resolved", "rejected"} => timerSet

\* The readings the frame extractor has passed to appendReading: those in
\* the log and those of the calls whose append to the log is under way.
yieldedPowers ==
  {log[i].obj.power : i \in 1..Len(log)}
    \cup {call[c].stamped.power :
            c \in {d \in DOMAIN call : call[d].pc = "appendLog"}}

yieldedCount ==
  Len(log) + Cardinality({c \in DOMAIN call : call[c].pc = "appendLog"})

ScenarioStream == <<ScenarioChunk1, ScenarioChunk2>>

\* C10 as claimed: one record (power 1) after the first chunk and one more
\* (power 0) after the second.
C10_TwoChunksTwoRecords ==
  arg = ScenarioStream =>
    /\ Len(wire) = 1 => (yieldedCount = 1 /\ yieldedPowers = {Num(1)})
    /\ (wire = <<>> /\ AllIdle) =>
         [i \in 1..Len(log) |-> log[i].obj.power] = <<Num(1), Num(0)>>

\* C10: fed garbage{"power":1}{"pow and then er":0, the extractor yields
\* exactly one record (power 1) after the first chunk, and after the second
\* chunk no further record: the frame {"power":0 is not closed, and is
\* retained in the buffer.
C10_TwoChunks ==
  arg = ScenarioStream =>
    /\ Len(wire) <= 1 => (yieldedCount = 1 /\ yieldedPowers = {Num(1)})
    /\ wire = <<>> => buffer = <<"{", "\"", "p", "o", "w", "e", "r", "\"", ":", "0">>

C10_Witness ==
  /\ arg = ScenarioStream
  /\ wire = <<>>
  /\ AllIdle
  /\ Len(log) = 1

\* The text frame lies in the buffer buf.
holds(buf, frame) ==
  \E i \in 1..(Len(buf) - Len(frame) + 1) :
    SubSeq(buf, i, i + Len(frame) - 1) = frame

\* No flushBuffer call is under way.
FlushIdle == \A c \in DOMAIN call \cap FlushIds : call[c].pc = "idle"

\* C11: a candidate that is not well formed, a stray "{" included, never
\* blocks the frames after it: once every chunk is delivered and flushBuffer
\* has returned, no well-formed frame of the stream is left in the buffer.
C11_MalformedNeverBlocks ==
  (wire = <<>> /\ FlushIdle) =>
    (~holds(buffer, FrameOn) /\ ~holds(buffer, FrameOff))

\* Caller c's appendReading throws in this step.
throws(c) ==
  /\ call'[c] # call[c]
  /\ \/ call[c].pc = "appendLog" /\ log' = log
     \/ call[c].pc = "appendSeg" /\ statsLog' = statsLog

\* C12: when an append inside appendReading fails, a request is answered
\* with a failure and no stamped reading, and flushBuffer goes on: it
\* returns only when no complete candidate that parses is left in the buffer,
\* so that whenever no flushBuffer call is under way none is left.
C12_FailureNeverStopsIngestion ==
  /\ [](FlushIdle => ~flushLoop(buffer).calls)
  /\ [][\A c \in DOMAIN call :
          throws(c) =>
            IF c \in PushIds
              THEN call'[c] = [idleCall EXCEPT !.result = "failed"]
              ELSE \/ call'[c].pc = "appendLog"
                   \/ call'[c].pc = "idle" /\ ~flushLoop(buffer').calls]_vars

\* The request failed, the first frame's append failed and the second
\* frame of the same chunk was saved.
C12_Witness ==
  /\ arg = <<FrameOff \o FrameOn>>
  /\ wire = <<>> /\ buffer = <<>>
  /\ AllIdle
  /\ call[<<"push", 1>>].result = "failed"
  /\ Len(log) = 1
  /\ log[1].obj.power = Num(1)

\* The string t is one of the texts in cores with whitespace around it.
padded(t, cores) ==
  \E i \in 0..Len(t), j \in 0..Len(t) :
    /\ i <= j
    /\ \A k \in 1..i : t[k] \in WhiteSpace
    /\ \A k \in (j + 1)..Len(t) : t[k] \in WhiteSpace
    /\ SubSeq(t, i + 1, j) \in cores

\* The status the classifier is to give a power field.
classified(p) ==
  CASE p.type = "boolean" -> p.val
    [] p.type = "number" -> p.val # 0
    [] p.type = "string" ->
         padded(p.val, {<<"o", "n">>, <<"O", "n">>, <<"o", "N">>,
                        <<"O", "N">>, <<"1">>})
    [] OTHER -> FALSE

\* C13: computeOnline gives every reading a boolean: a boolean power maps
\* to itself, a number to (value # 0), a string to true iff trimmed and
\* lowercased it is "on" or "1", anything else to false; true -> true,
\* 0 -> false, "On" -> true, " 1 " -> true, "off" -> false, null -> false,
\* object -> false.
C13_ClassifierTotal ==
  ret # Null =>
    /\ ret \in {Bool(TRUE), Bool(FALSE)}
    /\ ret.val = classified(arg.power)
    /\ arg.power = Bool(TRUE) => ret.val
    /\ arg.power = Num(0) => ~ret.val
    /\ arg.power = Str(<<"O", "n">>) => ret.val
    /\ arg.power = Str(<<" ", "1", " ">>) => ret.val
    /\ arg.power = Str(<<"o", "f", "f">>) => ~ret.val
    /\ arg.power = Null => ~ret.val
    /\ arg.power = Obj => ~ret.val

C13_Witness ==
  /\ arg.power = Str(<<" ", "1", " ">>)
  /\ ret = Bool(TRUE)

\* Caller c's reading is applied in this step (lines 219-229).
applies(c) == call[c].pc = "logged" /\ call'[c].pc # "logged"

\* C14: a reading applied to set stats adds max(0, t - last_timestamp) to
\* total_online_ms when the last status was online, else to
\* total_offline_ms, and leaves the other total as it was; applied to unset
\* stats it adds nothing.  Both totals are >= 0 in every state and no step
\* of an appendReading call lowers either, also when a reading stamped
\* earlier is applied after one stamped later.
C14_DeltaAttributed ==
  /\ [](stats.total_online_ms >= 0 /\ stats.total_offline_ms >= 0)
  /\ [][/\ \A c \in DOMAIN call :
             applies(c) =>
               LET t == call[c].stamped.timestamp.ms
                   last == stats.last_timestamp.ms
                   delta == IF t > last THEN t - last ELSE 0
               IN IF stats.last_status = Null \/ stats.last_timestamp = Null
                    THEN /\ stats'.total_online_ms = stats.total_online_ms
                         /\ stats'.total_offline_ms = stats.total_offline_ms
                    ELSE IF stats.last_status = Bool(TRUE)
                    THEN /\ stats'.total_online_ms = stats.total_online_ms + delta
                         /\ stats'.total_offline_ms = stats.total_offline_ms
                    ELSE /\ stats'.total_offline_ms = stats.total_offline_ms + delta
                         /\ stats'.total_online_ms = stats.total_online_ms
        /\ call' # call =>
             /\ stats'.total_online_ms >= stats.total_online_ms
             /\ stats'.total_offline_ms >= stats.total_offline_ms]_vars

\* The request stamped on the first day was saved after the frame stamped
\* on the second day: its reading was applied to stats set at a later time.
C14_Witness ==
  /\ AllIdle
  /\ call[<<"push", 1>>].result = "saved"
  /\ call[<<"push", 1>>].stamped.timestamp = Iso(StartTime)
  /\ Len(log) >= 2
  /\ log[Len(log)] = stringify(call[<<"push", 1>>].stamped)
  /\ log[Len(log) - 1].json
  /\ log[Len(log) - 1].obj.timestamp = Iso(StartTime + DayMs)
  /\ stats.last_timestamp = Iso(StartTime)
  /\ stats.total_online_ms + stats.total_offline_ms > 0

\* C15: a reading's call appends at most one segment, and goes to append
\* one exactly when it is applied to set stats, its status differs from
\* last_status and delta > 0.  The segment carries the last status, start_at
\* = the last_timestamp, end_at = the reading's timestamp and duration_ms =
\* delta.  A reading applied to unset stats adds no time and appends no
\* segment; no step of pruneOldReadings or loadStatsFromReadings appends one.
C15_SegmentPerTransition ==
  [][/\ \A c \in DOMAIN call :
          applies(c) =>
            LET reading == call[c].stamped
                t == reading.timestamp.ms
                isSet == stats.last_status # Null /\ stats.last_timestamp # Null
                due == /\ isSet
                       /\ Bool(classified(reading.power)) # stats.last_status
                       /\ t > stats.last_timestamp.ms
            IN /\ (call'[c].pc = "appendSeg") <=> due
               /\ due =>
                    /\ call'[c].seg.status =
                         (IF stats.last_status = Bool(TRUE) THEN "online"
                          ELSE "offline")
                    /\ call'[c].seg.start_at = stats.last_timestamp
                    /\ call'[c].seg.end_at = reading.timestamp
                    /\ call'[c].seg.duration_ms = t - stats.last_timestamp.ms
               /\ ~isSet =>
                    /\ stats'.total_online_ms = stats.total_online_ms
                    /\ stats'.total_offline_ms = stats.total_offline_ms
     /\ \A c \in DOMAIN call :
          /\ (call'[c].pc = "appendSeg" /\ call[c].pc # "appendSeg")
               => call[c].pc = "logged"
          /\ (call[c].pc = "appendSeg" /\ call'[c].pc = "appendSeg")
               => call'[c].seg = call[c].seg
          /\ call[c].pc = "segged" => call'[c].pc # "appendSeg"
     /\ (statsLog' # statsLog /\ sp' = sp) =>
          \E c \in DOMAIN call :
            /\ call[c].pc = "appendSeg"
            /\ call'[c].pc = "segged"
            /\ statsLog' = Append(statsLog, stringify(call[c].seg))
     /\ (rp' # rp \/ lp' # lp) => statsLog' = statsLog]_vars

\* A segment that ends on the second day has been appended.
C15_Witness ==
  /\ AllIdle
  /\ statsLog # <<>>
  /\ statsLog[Len(statsLog)].json
  /\ statsLog[Len(statsLog)].obj.end_at = Iso(StartTime + DayMs)
  /\ statsLog[Len(statsLog)].obj.duration_ms = DayMs

\* The status of the i-th reading of the log.
statusAt(i) == classified(log[i].obj.power)

\* C16: every segment of the segment log is a completed run of one status:
\* it starts at the first reading of the run (the first reading ever, or the
\* one at which the status changed), ends at the reading that ended the
\* run, and lasts from the one to the other.
C16_SegmentIsCompletedRun ==
  \A k \in 1..Len(statsLog) :
    \E i \in 1..Len(log), j \in 1..Len(log) :
      /\ i < j
      /\ i = 1 \/ statusAt(i - 1) # statusAt(i)
      /\ \A n \in i..(j - 1) : statusAt(n) = statusAt(i)
      /\ statusAt(j) # statusAt(i)
      /\ statsLog[k].obj.status =
           (IF statusAt(i) THEN "online" ELSE "offline")
      /\ statsLog[k].obj.start_at = log[i].obj.timestamp
      /\ statsLog[k].obj.end_at = log[j].obj.timestamp
      /\ statsLog[k].obj.duration_ms =
           log[j].obj.timestamp.ms - log[i].obj.timestamp.ms

\* The stats without the time that the call awaiting the append of the
\* segment seg added to them when it was applied.
withoutAdded(s, seg) ==
  IF seg.status = "online"
    THEN [s EXCEPT !.total_online_ms = @ - seg.duration_ms]
    ELSE [s EXCEPT !.total_offline_ms = @ - seg.duration_ms]

\* C17: an appendReading call that throws leaves the stats as they were
\* before the call: a failed append of the reading leaves them untouched,
\* and after a failed append of the segment the totals no longer hold the
\* time the call had added.
C17_FailedApplyLeavesStats ==
  [][\A c \in DOMAIN call :
       throws(c) =>
         IF call[c].pc = "appendLog"
           THEN stats' = stats
           ELSE stats' = withoutAdded(stats, call[c].seg)]_vars

\* C18: a reading a request was answered "saved" for, and whose timestamp
\* is within the retention window, is in the readings log whenever no prune
\* of the readings log is under way.
C18_AcknowledgedReadingKept ==
  \A c \in DOMAIN call \cap PushIds :
    (/\ call[c].pc = "idle"
     /\ call[c].result = "saved"
     /\ rp.pc = "idle"
     /\ call[c].stamped.timestamp.ms >= now - RETENTION_MS)
      => \E i \in 1..Len(log) : log[i] = stringify(call[c].stamped)

\* The timestamp of the earliest reading of the log.
earliest ==
  CHOOSE t \in {log[i].obj.timestamp.ms : i \in 1..Len(log)} :
    \A i \in 1..Len(log) : t <= log[i].obj.timestamp.ms

\* C19: with last_timestamp set and no call between adding its delta and
\* setting last_timestamp, the two totals together are at most the time
\* from the earliest reading that went into the stats to last_timestamp,
\* however the appendReading calls interleave.
C19_TimeCountedOnce ==
  (/\ stats.last_timestamp # Null
   /\ log # <<>>
   /\ \A c \in DOMAIN call : ~MidApply(c)) =>
    stats.total_online_ms + stats.total_offline_ms
      <= stats.last_timestamp.ms - earliest

\* The bytes the serial link has delivered so far.
RECURSIVE joined(_)
joined(chunks) ==
  IF chunks = <<>> THEN <<>> ELSE Head(chunks) \o joined(Tail(chunks))

delivered == joined(SubSeq(arg, 1, Len(arg) - Len(wire)))

\* The frames of the stream are not nested: one is complete at each "}".
closed(text) == Cardinality({i \in 1..Len(text) : text[i] = "}"})

\* The frame the text ends in the middle of: what follows its last "}"
\* from the first "{" on.
partialFrame(text) ==
  LET from == {i \in 1..Len(text) :
                 /\ text[i] = "{"
                 /\ \A k \in i..Len(text) : text[k] # "}"}
  IN IF from = {} THEN <<>>
     ELSE SubSeq(text, CHOOSE i \in from : \A k \in from : i <= k, Len(text))

\* The readings with power p passed to appendReading so far.
yieldedWith(p) ==
  Cardinality({i \in 1..Len(log) : log[i].obj.power = p})
    + Cardinality({c \in DOMAIN call :
                     call[c].pc = "appendLog" /\ call[c].stamped.power = p})

\* The frames equal to frame that are passed to appendReading, as readings
\* with power p, or wait in the buffer for the call under way to return.
extracted(frame, p) ==
  yieldedWith(p) + (IF holds(buffer, frame) THEN 1 ELSE 0)

\* C20: with flushBuffer calls overlapping, each complete frame of the
\* bytes delivered (the frame {"power":1} and then the frame {"power":0})
\* is passed to appendReading exactly once or is still in the buffer, none
\* twice and none dropped; the bytes of the frame not yet complete stay in
\* the buffer; and when no flushBuffer call is under way every complete
\* frame has been passed and the buffer holds the incomplete frame only.
C20_FramesExactlyOnce ==
  /\ yieldedCount + closed(buffer) = closed(delivered)
  /\ extracted(FrameOn, Num(1)) = (IF closed(delivered) >= 1 THEN 1 ELSE 0)
  /\ extracted(FrameOff, Num(0)) = (IF closed(delivered) >= 2 THEN 1 ELSE 0)
  /\ partialFrame(buffer) = partialFrame(delivered)
  /\ FlushIdle => buffer = partialFrame(delivered)

\* The second chunk completed the second frame while the flushBuffer call
\* of the first chunk was awaiting appendReading.
C20_Witness ==
  /\ wire = <<>>
  /\ \A c \in DOMAIN call : call[c].pc # "idle"
  /\ yieldedWith(Num(0)) = 1
  /\ buffer = <<>>

====
